---------------------------- MODULE Spec2Model ----------------------------
(***************************************************************************)
(* Layout packing of the Ganesh live collage maker.  Three variants of the *)
(* application live in the repository, each with its own packer:           *)
(*                                                                         *)
(*   src/unnamed/part_001  responsive mosaic  (getResponsiveGridSize,      *)
(*                         generateMosaicLayout)            -> Spec        *)
(*   src/unnamed/part_000  fixed step table   (getLayoutConfig,            *)
(*                         getGridPosition)                 -> SpecFixed   *)
(*   src/src/App.jsx       uniform square grid (getGridSize,               *)
(*                         downloadCollage)                 -> SpecUniform *)
(*                                                                         *)
(* The layout of a variant depends on the photo collection only through    *)
(* photos.length, so each variant's collection is carried as its length.   *)
(* The photo objects themselves (id, src), the loads and exports in flight *)
(* and the camera are followed in the session specifications:              *)
(*                                                                         *)
(*   src/unnamed/part_001  capturePhoto, handleFileUpload, removePhoto,    *)
(*                         clearAllPhotos, downloadCollage  -> SpecSession *)
(*   src/src/App.jsx       handleFileUpload, handleDrop, addPhoto,         *)
(*                         removePhoto, downloadCollage     -> SpecApp     *)
(*   src/src/App.jsx       startCamera                      -> SpecCamera  *)
(***************************************************************************)
EXTENDS Integers, Sequences, FiniteSets, TLC

\* Largest photos.length explored in each variant.
MaxPhotoCount == 40
MaxFixedCount == 104
MaxUniformCount == 38

\* The session of part_001: files and frames handed to the application, the
\* values Date.now() takes, the distinct values of Math.random() told apart,
\* the files of one upload, the exports in flight.
MaxSources == 2
MaxClock == 1
MaxFraction == 2
MaxBatch == 2
MaxExports == 1

\* The calls of App.jsx's startCamera followed.
MaxCameraCalls == 3

VARIABLES
    \* ---- src/unnamed/part_001 (responsive mosaic)
    photoCount,      \* photos.length
    screenSize,      \* useState('desktop')
    pc,              \* position inside the render: "render", "loop", "done"
    gridSize,        \* const gridSize of generateMosaicLayout
    i,               \* loop index of the for loop
    currentRow,
    currentCol,
    occupiedCells,   \* Set of `${row}-${col}` keys
    layouts,         \* the array being built, then mosaicLayout
    \* ---- src/unnamed/part_000 (fixed step table)
    fxPhotoCount,    \* photos.length
    fxPc,            \* "render" or "shown"
    layoutConfig,    \* getLayoutConfig(photos.length)
    gridPositions,   \* getGridPosition(index, layoutConfig) of each rendered photo
    \* ---- src/src/App.jsx (uniform square grid)
    uPhotoCount,         \* photos.length
    dlPc,                \* "idle", or "awaiting" html2canvas inside downloadCollage
    dlPhotos,            \* const photoCount of the running downloadCollage (else 0)
    downloadContainer,   \* indices of the photos cloned into the temporary container
    savedCollage,        \* the last downloaded image: which photo indices it shows
    alertShown,          \* 'Download failed. Please try again.' has been shown
    \* ---- an observer of part_001's plans
    remembered,          \* at most one plan kept for comparison, with its inputs
    \* ---- src/unnamed/part_001, the photo collection of a session
    photos,          \* useState([]): the photo objects, {id, src}
    showCamera,      \* useState(false)
    pendingLoads,    \* FileReaders and Images whose onload has not run yet
    clock,           \* Date.now()
    sourceCount,     \* files and frames handed over so far (they number the srcs)
    exporting,       \* calls of downloadCollage awaiting html2canvas
    exportResult,    \* how the last finished export ended: "none", "saved", "alert"
    cancelled,       \* observer: srcs that were pending during a removal or clear
    \* ---- src/src/App.jsx, the photo collection of a session
    uPhotos,         \* useState([]): the photo objects, {id, src}
    uReaders,        \* FileReaders whose onload has not run yet
    uClock,          \* Date.now()
    uSourceCount,    \* files handed over so far (they number the data URLs)
    \* ---- src/src/App.jsx, the camera
    uShowCamera,     \* useState(false): the modal with <video ref={videoRef}> is rendered
    cameraCalls,     \* calls of startCamera so far
    gumPending,      \* calls of startCamera awaiting getUserMedia
    streamCount,     \* MediaStreams handed out so far (they number the streams)
    liveStreams,     \* streams whose tracks have not been stopped
    videoSrcObject,  \* videoRef.current.srcObject: a stream number, 0 for none
    cameraOutcome    \* how the last settled startCamera ended: access and alert

mosaicVars == <<photoCount, screenSize, pc, gridSize, i, currentRow, currentCol,
                occupiedCells, layouts>>
fixedVars == <<fxPhotoCount, fxPc, layoutConfig, gridPositions>>
uniformVars == <<uPhotoCount, dlPc, dlPhotos, downloadContainer, savedCollage,
                 alertShown>>
replayVars == <<remembered>>
sessionVars == <<photos, showCamera, pendingLoads, clock, sourceCount, exporting,
                 exportResult, cancelled>>
appVars == <<uPhotos, uReaders, uClock, uSourceCount>>
cameraVars == <<uShowCamera, cameraCalls, gumPending, streamCount, liveStreams,
                videoSrcObject, cameraOutcome>>
vars == <<mosaicVars, fixedVars, uniformVars, replayVars, sessionVars, appVars, cameraVars>>

\* What a step of one variant leaves alone.
exceptMosaic == <<fixedVars, uniformVars, replayVars, sessionVars, appVars, cameraVars>>
exceptFixed == <<mosaicVars, uniformVars, replayVars, sessionVars, appVars, cameraVars>>
exceptUniform == <<mosaicVars, fixedVars, replayVars, sessionVars, appVars, cameraVars>>
exceptSession == <<fixedVars, uniformVars, replayVars, appVars, cameraVars>>
exceptApp == <<mosaicVars, fixedVars, replayVars, sessionVars, cameraVars>>
exceptCamera == <<mosaicVars, fixedVars, replayVars, sessionVars>>

Min(a, b) == IF a <= b THEN a ELSE b
Max(a, b) == IF a >= b THEN a ELSE b

\* Math.ceil(Math.sqrt(n * num / den)) for an integer n >= 0: the least g with
\* g*g >= n*num/den.
CeilSqrtScaled(n, num, den) ==
    CHOOSE g \in 0..(n * num + 1) :
        /\ den * g * g >= num * n
        /\ \A h \in 0..(g - 1) : den * h * h < num * n

\* Math.ceil(Math.sqrt(n))
CeilSqrt(n) == CeilSqrtScaled(n, 1, 1)

(***************************************************************************)
(*                 src/unnamed/part_001: responsive mosaic                 *)
(***************************************************************************)
ScreenSizes == {"mobile", "tablet", "laptop", "desktop"}

\* getResponsiveGridSize(photoCount, screenSize); 1.2 = 6/5, 1.5 = 3/2
getResponsiveGridSize(count, screen) ==
    LET baseSizes ==
            [mobile  |-> Min(3, Max(2, CeilSqrt(count))),
             tablet  |-> Min(4, Max(3, CeilSqrt(count))),
             laptop  |-> Min(5, Max(4, CeilSqrtScaled(count, 6, 5))),
             desktop |-> Min(6, Max(4, CeilSqrtScaled(count, 3, 2)))]
    IN  IF screen \in DOMAIN baseSizes /\ baseSizes[screen] # 0
        THEN baseSizes[screen]
        ELSE 4

\* The key `${row}-${col}` of a cell in occupiedCells.
CellKey(row, col) == ToString(row) \o "-" \o ToString(col)

Layout(size, row, col, rowSpan, colSpan) ==
    [size |-> size, row |-> row, col |-> col, rowSpan |-> rowSpan, colSpan |-> colSpan]

\* The pattern list chosen by screen size.
patterns(screen) ==
    IF screen = "mobile"
    THEN << [size |-> "medium", rowSpan |-> 1, colSpan |-> 2],
            [size |-> "small",  rowSpan |-> 1, colSpan |-> 1],
            [size |-> "wide",   rowSpan |-> 1, colSpan |-> 3] >>
    ELSE << [size |-> "large",  rowSpan |-> 2, colSpan |-> 2],
            [size |-> "wide",   rowSpan |-> 1, colSpan |-> 3],
            [size |-> "tall",   rowSpan |-> 3, colSpan |-> 1],
            [size |-> "medium", rowSpan |-> 1, colSpan |-> 2],
            [size |-> "small",  rowSpan |-> 1, colSpan |-> 1] >>

\* The hand-authored layouts returned before the loop, for 1 <= count <= 3.
\* Math.floor(g * 0.6) = (g * 6) \div 10; Math.floor(m/2) || 1; Math.ceil(m/2).
FixedLayouts(count, screen, g) ==
    IF screen = "mobile" /\ count = 1 THEN
        << Layout("large", 1, 1, 2, 2) >>
    ELSE IF screen = "mobile" /\ count = 2 THEN
        << Layout("medium", 1, 1, 1, 2), Layout("medium", 2, 1, 1, 2) >>
    ELSE IF screen = "mobile" /\ count = 3 THEN
        << Layout("medium", 1, 1, 1, 2), Layout("small", 2, 1, 1, 1),
           Layout("small", 2, 2, 1, 1) >>
    ELSE IF count = 1 THEN
        LET span == IF screen = "mobile" THEN 2 ELSE 4
        IN  << Layout("large", 1, 1, span, span) >>
    ELSE IF count = 2 THEN
        LET span == g \div 2
        IN  << Layout("large", 1, 1, g, span), Layout("large", 1, span + 1, g, span) >>
    ELSE
        LET largePan == (g * 6) \div 10
            mediumSpan == g - largePan
            half == mediumSpan \div 2
        IN  << Layout("large", 1, 1, largePan, largePan),
               Layout("medium", 1, largePan + 1, IF half # 0 THEN half ELSE 1, mediumSpan),
               Layout("medium", half + 2, largePan + 1, (mediumSpan + 1) \div 2, mediumSpan) >>

\* The keys of the cells of the rectangle [row..endRow] x [col..endCol].
SpanKeys(row, col, endRow, endCol) ==
    { CellKey(r, c) : r \in row..endRow, c \in col..endCol }

\* Mutant of exceedsGrid: && instead of ||.
exceedsGridBoth(endRow, endCol, g) == endRow > g /\ endCol > g

\* "if (endRow > gridSize || endCol > gridSize)": the pattern leaves the grid.
exceedsGrid(endRow, endCol, g) == endRow > g \/ endCol > g

\* Mutant of canFit: only the anchor cell of the span is tested.
canFitAnchorOnly(row, col, endRow, endCol, occupied) ==
    CellKey(row, col) \notin occupied

\* "Check if all cells are free"
canFit(row, col, endRow, endCol, occupied) ==
    \A r \in row..endRow : \A c \in col..endCol : CellKey(r, c) \notin occupied

InitMosaic ==
    /\ photoCount = 0
    /\ screenSize = "desktop"
    /\ pc = "render"
    /\ gridSize = 4
    /\ i = 0
    /\ currentRow = 1
    /\ currentCol = 1
    /\ occupiedCells = {}
    /\ layouts = << >>

\* generateMosaicLayout(photos.length), counts 1..3: the early returns.
ReturnFixedLayout ==
    /\ pc = "render"
    /\ photoCount \in 1..3
    /\ gridSize' = getResponsiveGridSize(photoCount, screenSize)
    /\ layouts' = FixedLayouts(photoCount, screenSize, gridSize')
    /\ i' = 0 /\ currentRow' = 1 /\ currentCol' = 1 /\ occupiedCells' = {}
    /\ pc' = "done"
    /\ UNCHANGED <<photoCount, screenSize>>

\* Mutant of EnterLoop: occupiedCells is kept from the previous call.
EnterLoopKeepOccupied ==
    /\ pc = "render"
    /\ photoCount \notin 1..3
    /\ gridSize' = getResponsiveGridSize(photoCount, screenSize)
    /\ layouts' = << >>
    /\ i' = 0 /\ currentRow' = 1 /\ currentCol' = 1
    /\ pc' = "loop"
    /\ UNCHANGED <<photoCount, screenSize, occupiedCells>>

\* generateMosaicLayout, every other count: the locals before the for loop.
EnterLoop ==
    /\ pc = "render"
    /\ photoCount \notin 1..3
    /\ gridSize' = getResponsiveGridSize(photoCount, screenSize)
    /\ layouts' = << >>
    /\ i' = 0 /\ currentRow' = 1 /\ currentCol' = 1 /\ occupiedCells' = {}
    /\ pc' = "loop"
    /\ UNCHANGED <<photoCount, screenSize>>

\* Mutant of FindNextAvailable: the wrap to column 1 forgets currentRow++.
FindNextAvailableSameRow ==
    /\ pc = "loop"
    /\ i < photoCount
    /\ CellKey(currentRow, currentCol) \in occupiedCells
    /\ currentCol' = (IF currentCol + 1 > gridSize THEN 1 ELSE currentCol + 1)
    /\ UNCHANGED <<photoCount, screenSize, pc, gridSize, i, currentRow, occupiedCells,
                   layouts>>

\* One turn of "while (occupiedCells.has(...))": step over an occupied cell.
FindNextAvailable ==
    /\ pc = "loop"
    /\ i < photoCount
    /\ CellKey(currentRow, currentCol) \in occupiedCells
    /\ IF currentCol + 1 > gridSize
       THEN currentCol' = 1 /\ currentRow' = currentRow + 1
       ELSE currentCol' = currentCol + 1 /\ currentRow' = currentRow
    /\ UNCHANGED <<photoCount, screenSize, pc, gridSize, i, occupiedCells, layouts>>

\* Mutant of PlacePhoto: the cursor advances by two columns (currentCol += 2).
PlacePhotoSkipCell ==
    /\ pc = "loop"
    /\ i < photoCount
    /\ CellKey(currentRow, currentCol) \notin occupiedCells
    /\ LET pats == patterns(screenSize)
           pattern == pats[(i % Len(pats)) + 1]
           endRow == currentRow + pattern.rowSpan - 1
           endCol == currentCol + pattern.colSpan - 1
       IN  IF exceedsGrid(endRow, endCol, gridSize)
           THEN /\ layouts' = Append(layouts, Layout("small", currentRow, currentCol, 1, 1))
                /\ occupiedCells' = occupiedCells \cup {CellKey(currentRow, currentCol)}
           ELSE IF canFit(currentRow, currentCol, endRow, endCol, occupiedCells)
           THEN /\ layouts' = Append(layouts, Layout(pattern.size, currentRow, currentCol,
                                                     pattern.rowSpan, pattern.colSpan))
                /\ occupiedCells' = occupiedCells
                                      \cup SpanKeys(currentRow, currentCol, endRow, endCol)
           ELSE /\ layouts' = Append(layouts, Layout("small", currentRow, currentCol, 1, 1))
                /\ occupiedCells' = occupiedCells \cup {CellKey(currentRow, currentCol)}
    /\ IF currentCol + 2 > gridSize
       THEN currentCol' = 1 /\ currentRow' = currentRow + 1
       ELSE currentCol' = currentCol + 2 /\ currentRow' = currentRow
    /\ i' = i + 1
    /\ UNCHANGED <<photoCount, screenSize, pc, gridSize>>

\* The rest of the loop body once the while loop has ended: fit test, push,
\* marking, cursor advance, i++.
PlacePhoto ==
    /\ pc = "loop"
    /\ i < photoCount
    /\ CellKey(currentRow, currentCol) \notin occupiedCells
    /\ LET pats == patterns(screenSize)
           pattern == pats[(i % Len(pats)) + 1]
           endRow == currentRow + pattern.rowSpan - 1
           endCol == currentCol + pattern.colSpan - 1
       IN  IF exceedsGrid(endRow, endCol, gridSize)
           THEN /\ layouts' = Append(layouts, Layout("small", currentRow, currentCol, 1, 1))
                /\ occupiedCells' = occupiedCells \cup {CellKey(currentRow, currentCol)}
           ELSE IF canFit(currentRow, currentCol, endRow, endCol, occupiedCells)
           THEN /\ layouts' = Append(layouts, Layout(pattern.size, currentRow, currentCol,
                                                     pattern.rowSpan, pattern.colSpan))
                /\ occupiedCells' = occupiedCells
                                      \cup SpanKeys(currentRow, currentCol, endRow, endCol)
           ELSE /\ layouts' = Append(layouts, Layout("small", currentRow, currentCol, 1, 1))
                /\ occupiedCells' = occupiedCells \cup {CellKey(currentRow, currentCol)}
    /\ IF currentCol + 1 > gridSize
       THEN currentCol' = 1 /\ currentRow' = currentRow + 1
       ELSE currentCol' = currentCol + 1 /\ currentRow' = currentRow
    /\ i' = i + 1
    /\ UNCHANGED <<photoCount, screenSize, pc, gridSize>>

\* i < photoCount fails: return layouts.
ReturnLayouts ==
    /\ pc = "loop"
    /\ i >= photoCount
    /\ pc' = "done"
    /\ UNCHANGED <<photoCount, screenSize, gridSize, i, currentRow, currentCol,
                   occupiedCells, layouts>>

\* img.onload of capturePhoto / handleFileUpload: setPhotos(prev => [...prev, photo]),
\* then the component renders again.
AppendPhoto ==
    /\ pc = "done"
    /\ photoCount < MaxPhotoCount
    /\ photoCount' = photoCount + 1
    /\ pc' = "render"
    /\ UNCHANGED <<screenSize, gridSize, i, currentRow, currentCol, occupiedCells, layouts>>

\* Mutant of removePhoto: the collection shrinks without a new render.
removePhotoNoRender ==
    /\ pc = "done"
    /\ photoCount > 0
    /\ photoCount' = photoCount - 1
    /\ pc' = "done"
    /\ UNCHANGED <<screenSize, gridSize, i, currentRow, currentCol, occupiedCells, layouts>>

\* removePhoto(photo.id) from a rendered photo's button.
removePhoto ==
    /\ pc = "done"
    /\ photoCount > 0
    /\ photoCount' = photoCount - 1
    /\ pc' = "render"
    /\ UNCHANGED <<screenSize, gridSize, i, currentRow, currentCol, occupiedCells, layouts>>

\* clearAllPhotos; its button is rendered only when photos.length > 0.
clearAllPhotos ==
    /\ pc = "done"
    /\ photoCount > 0
    /\ photoCount' = 0
    /\ pc' = "render"
    /\ UNCHANGED <<screenSize, gridSize, i, currentRow, currentCol, occupiedCells, layouts>>

\* updateScreenSize on mount and on resize; React renders again only on a change.
updateScreenSize ==
    /\ pc = "done"
    /\ \E s \in ScreenSizes :
          /\ s # screenSize
          /\ screenSize' = s
    /\ pc' = "render"
    /\ UNCHANGED <<photoCount, gridSize, i, currentRow, currentCol, occupiedCells, layouts>>

\* The steps of generateMosaicLayout itself.
Generate == ReturnFixedLayout \/ EnterLoop \/ FindNextAvailable \/ PlacePhoto \/ ReturnLayouts

(***************************************************************************)
(*                      Claims about the mosaic packer                     *)
(***************************************************************************)
\* The grid cells an assignment covers.
Cells(l) == { <<r, c>> : r \in l.row..(l.row + l.rowSpan - 1),
                         c \in l.col..(l.col + l.colSpan - 1) }

GridCells(g) == (1..g) \X (1..g)

\* The plan of the last completed render is the plan of the current collection.
Rendered == pc = "done"

\* C2: for every photo count and viewport class the responsive grid has at
\* least as many cells as there are photos: gridSize * gridSize >= count.
C2_ResponsiveCapacity ==
    pc # "render" => gridSize * gridSize >= photoCount

\* C3: every assignment returned by generateMosaicLayout lies inside the
\* gridSize x gridSize grid.
C3_WithinGrid ==
    Rendered =>
        \A k \in 1..Len(layouts) :
            /\ 1 <= layouts[k].row
            /\ 1 <= layouts[k].col
            /\ layouts[k].row + layouts[k].rowSpan - 1 <= gridSize
            /\ layouts[k].col + layouts[k].colSpan - 1 <= gridSize

\* C4: no two assignments returned by generateMosaicLayout share a grid cell.
C4_Disjoint ==
    Rendered =>
        \A a, b \in 1..Len(layouts) :
            a # b => Cells(layouts[a]) \cap Cells(layouts[b]) = {}

\* A photo whose pattern was not the 1x1 one and that was degraded to 1x1.
Degraded(k) ==
    LET pats == patterns(screenSize)
        pattern == pats[((k - 1) % Len(pats)) + 1]
    IN  /\ pattern.rowSpan * pattern.colSpan > 1
        /\ layouts[k].rowSpan = 1
        /\ layouts[k].colSpan = 1

\* C4 witness: a returned plan of the loop in which a photo was degraded to 1x1
\* next to photos that kept a larger span.
C4_Witness ==
    /\ Rendered
    /\ photoCount >= 4
    /\ \E k \in 1..Len(layouts) : Degraded(k)
    /\ \E k \in 1..Len(layouts) : layouts[k].rowSpan * layouts[k].colSpan > 1

\* C5: generateMosaicLayout always terminates, and what it returns holds
\* exactly one assignment per photo.
C5_Totality ==
    /\ [](Rendered => Len(layouts) = photoCount)
    /\ (pc # "done") ~> (pc = "done")

\* C5 witness: a plan was returned although the whole grid was occupied before
\* the last photos were anchored (they sit on rows beyond the grid).
C5_Witness ==
    /\ Rendered
    /\ Len(layouts) = photoCount
    /\ photoCount >= 4
    /\ \A cell \in GridCells(gridSize) : CellKey(cell[1], cell[2]) \in occupiedCells
    /\ \E k \in 1..Len(layouts) : layouts[k].row > gridSize

\* C6: when gridSize * gridSize >= count, every photo is anchored on a cell
\* inside the grid.
C6_NoRunOut ==
    (Rendered /\ gridSize * gridSize >= photoCount) =>
        \A k \in 1..Len(layouts) :
            /\ layouts[k].row \in 1..gridSize
            /\ layouts[k].col \in 1..gridSize

\* C8: for count = 1 the assignment spans exactly the full grid; for count = 2
\* the two assignments have the same size and cover exactly the full grid.
C8_HandAuthored ==
    Rendered =>
        /\ photoCount = 1 => Cells(layouts[1]) = GridCells(gridSize)
        /\ photoCount = 2 =>
              /\ layouts[1].rowSpan = layouts[2].rowSpan
              /\ layouts[1].colSpan = layouts[2].colSpan
              /\ Cells(layouts[1]) \cap Cells(layouts[2]) = {}
              /\ Cells(layouts[1]) \cup Cells(layouts[2]) = GridCells(gridSize)

\* ---- C9: the placement rule, stated over grid cells in row-major order.
\* The n-th cell (from 0) of the row-major order of a grid g columns wide; the
\* order goes on below the grid's last row.
CellAt(n, g) == << (n \div g) + 1, (n % g) + 1 >>

\* The cells taken by the photos before the k-th assignment of the plan.
TakenBefore(k) == UNION { Cells(layouts[j]) : j \in 1..(k - 1) }

\* Where the cursor stands when the k-th assignment is made: at the first cell,
\* or one cell after the previous anchor.
CursorBefore(k) ==
    IF k = 1 THEN 0
    ELSE (layouts[k - 1].row - 1) * gridSize + (layouts[k - 1].col - 1) + 1

\* The k-th assignment as the rule gives it from the assignments before it.
RuleAssignment(k) ==
    LET pats == patterns(screenSize)
        pattern == pats[((k - 1) % Len(pats)) + 1]
        taken == TakenBefore(k)
        from == CursorBefore(k)
        \* the first cell at or after the cursor that is not taken
        n == CHOOSE m \in from..(from + Cardinality(taken)) :
                 /\ CellAt(m, gridSize) \notin taken
                 /\ \A l \in from..(m - 1) : CellAt(l, gridSize) \in taken
        anchor == CellAt(n, gridSize)
        span == (anchor[1]..(anchor[1] + pattern.rowSpan - 1))
                    \X (anchor[2]..(anchor[2] + pattern.colSpan - 1))
        fits == span \subseteq GridCells(gridSize) /\ span \cap taken = {}
    IN  IF fits
        THEN [row |-> anchor[1], col |-> anchor[2],
              rowSpan |-> pattern.rowSpan, colSpan |-> pattern.colSpan]
        ELSE [row |-> anchor[1], col |-> anchor[2], rowSpan |-> 1, colSpan |-> 1]

Geometry(l) == [row |-> l.row, col |-> l.col, rowSpan |-> l.rowSpan, colSpan |-> l.colSpan]

\* C9: for count >= 4, photo i is anchored at the first unoccupied cell at or
\* after the cursor in row-major order, gets the span of pattern (i mod length)
\* iff that span stays within the grid and is all unoccupied, and a 1x1 cell at
\* the same anchor otherwise.  For count = 5 on a 4x4 grid: photo 0 is the 2x2
\* 'large' at (1,1), photo 1 ('wide') is degraded to 1x1, and the five
\* assignments have five distinct anchors and pairwise disjoint cells.
C9_PlacementRule ==
    (Rendered /\ photoCount >= 4) =>
        /\ Len(layouts) = photoCount
        /\ \A k \in 1..photoCount : Geometry(layouts[k]) = RuleAssignment(k)
        /\ (photoCount = 5 /\ gridSize = 4) =>
              /\ layouts[1] = Layout("large", 1, 1, 2, 2)
              /\ layouts[2].rowSpan = 1 /\ layouts[2].colSpan = 1
              /\ Cardinality({ <<layouts[k].row, layouts[k].col>> : k \in 1..5 }) = 5
              /\ \A a, b \in 1..5 :
                    a # b => Cells(layouts[a]) \cap Cells(layouts[b]) = {}

\* C9 witness: the returned plan of five photos on a 4x4 grid, photo 1 degraded.
C9_Witness ==
    /\ Rendered
    /\ photoCount = 5
    /\ gridSize = 4
    /\ Len(layouts) = 5
    /\ Degraded(2)

\* The plan is the one generateMosaicLayout computes from nothing but the count
\* and the screen size.
FromScratch(count, screen) ==
    /\ gridSize = getResponsiveGridSize(count, screen)
    /\ Len(layouts) = count
    /\ count \in 1..3 => layouts = FixedLayouts(count, screen, gridSize)
    /\ count >= 4 => \A k \in 1..count : Geometry(layouts[k]) = RuleAssignment(k)

\* C13: after any sequence of ingestions, removals, clear-all and viewport
\* changes, the plan in use is the plan computed from scratch for the current
\* photo count and screen size, with one assignment per photo and pairwise
\* disjoint assignments; and the recomputation that follows a change always
\* completes.
C13_PlanInUse ==
    /\ [](Rendered =>
            /\ FromScratch(photoCount, screenSize)
            /\ \A a, b \in 1..Len(layouts) :
                   a < b => Cells(layouts[a]) \cap Cells(layouts[b]) = {})
    /\ (pc = "render") ~> Rendered

\* C13 witness: the plan in use after photos were added and the viewport left
\* its initial class is the one for the current three photos on a tablet.
C13_Witness ==
    /\ Rendered
    /\ screenSize = "tablet"
    /\ photoCount = 3
    /\ layouts = FixedLayouts(3, "tablet", 3)

\* The keys of the cells of columns 1..g that come before (row, col) in
\* row-major order.
KeysBefore(row, col, g) ==
    { CellKey(r, c) : r \in 1..(row - 1), c \in 1..g }
        \cup { CellKey(row, c) : c \in 1..(col - 1) }

\* C19: while generateMosaicLayout is in its loop, every grid cell before the
\* cursor (currentRow, currentCol) in row-major order is in occupiedCells; so
\* the cursor, where the next photo is anchored, is on a row beyond gridSize
\* only when all gridSize * gridSize cells of the grid are occupied.
C19_CursorPrefixOccupied ==
    pc = "loop" =>
        /\ KeysBefore(currentRow, currentCol, gridSize) \subseteq occupiedCells
        /\ currentRow > gridSize =>
               { CellKey(rc[1], rc[2]) : rc \in GridCells(gridSize) } \subseteq occupiedCells

\* C19 witness: the next photo is about to be anchored on a row beyond the grid.
C19_Witness ==
    /\ pc = "loop"
    /\ photoCount >= 4
    /\ i < photoCount
    /\ currentRow > gridSize
    /\ CellKey(currentRow, currentCol) \notin occupiedCells
    /\ Cardinality(occupiedCells) >= gridSize * gridSize

\* ---- C12: a plan is kept aside and compared with later plans of the same inputs.
\* The observer keeps the plan that the pending render is about to replace.  The
\* photo count has changed, so that plan was computed for Len(layouts) photos
\* on the current screen size, and another computation will have run before
\* the same inputs come back.
Remember ==
    /\ pc = "render"
    /\ remembered = {}
    /\ Len(layouts) # photoCount
    /\ remembered' = { [count |-> Len(layouts), screen |-> screenSize, plan |-> layouts] }
    /\ UNCHANGED <<mosaicVars, fixedVars, uniformVars, sessionVars, appVars, cameraVars>>

\* C12: two computations with the same photo count and the same viewport class
\* return the same assignment at every index, whatever was computed in between:
\* nothing (no occupancy) is carried from one call of generateMosaicLayout to
\* the next.
C12_Deterministic ==
    Rendered =>
        \A r \in remembered :
            (r.count = photoCount /\ r.screen = screenSize) =>
                /\ Len(layouts) = Len(r.plan)
                /\ \A k \in 1..Len(layouts) : layouts[k] = r.plan[k]

\* C12 witness: a plan of the loop came out again, equal to the one kept before
\* other plans were computed.
C12_Witness ==
    /\ Rendered
    /\ photoCount >= 4
    /\ \E r \in remembered :
          r.count = photoCount /\ r.screen = screenSize /\ r.plan = layouts

(***************************************************************************)
(*          src/unnamed/part_001: the photo collection of a session        *)
(***************************************************************************)
\* A photo id: Date.now() is the millisecond count, Math.random() adds a
\* fraction of it (0 for the ids that are Date.now() alone).
PhotoId(ms, fraction) == [ms |-> ms, fraction |-> fraction]

Photo(id, src) == [id |-> id, src |-> src]

\* An upload or a captured frame on its way: the FileReader is reading it
\* ("read") or the Image is decoding it ("decode"); image tells whether the
\* data decodes as an image.
Load(src, kind, stage, image) == [src |-> src, kind |-> kind, stage |-> stage, image |-> image]

InitSession ==
    /\ photos = << >>
    /\ showCamera = FALSE
    /\ pendingLoads = {}
    /\ clock = 0
    /\ sourceCount = 0
    /\ exporting = 0
    /\ exportResult = "none"
    /\ cancelled = {}

\* setPhotos / setShowCamera / setScreenSize: the component renders again and
\* calls generateMosaicLayout(photos.length).
RenderAgain(newPhotos) ==
    /\ photoCount' = Len(newPhotos)
    /\ pc' = "render"
    /\ UNCHANGED <<screenSize, gridSize, i, currentRow, currentCol, occupiedCells, layouts>>

\* The 'Camera Capture' button: setShowCamera(true).
openCamera ==
    /\ pc = "done"
    /\ ~showCamera
    /\ showCamera' = TRUE
    /\ RenderAgain(photos)
    /\ UNCHANGED <<photos, pendingLoads, clock, sourceCount, exporting, exportResult, cancelled>>

\* The 'Cancel' button of the camera modal: setShowCamera(false).
cancelCamera ==
    /\ pc = "done"
    /\ showCamera
    /\ showCamera' = FALSE
    /\ RenderAgain(photos)
    /\ UNCHANGED <<photos, pendingLoads, clock, sourceCount, exporting, exportResult, cancelled>>

\* capturePhoto up to "img.src = imageSrc": the Capture button exists while the
\* camera modal is shown; a screenshot that is not null starts an Image.
capturePhoto ==
    /\ pc = "done"
    /\ showCamera
    /\ sourceCount < MaxSources
    /\ sourceCount' = sourceCount + 1
    /\ pendingLoads' = pendingLoads \cup {Load(sourceCount + 1, "capture", "decode", TRUE)}
    /\ UNCHANGED <<mosaicVars, photos, showCamera, clock, exporting, exportResult, cancelled>>

\* handleFileUpload: files.forEach starts one FileReader per chosen file.
handleFileUpload ==
    /\ pc = "done"
    /\ \E n \in 1..MaxBatch :
          /\ sourceCount + n <= MaxSources
          /\ \E images \in [1..n -> BOOLEAN] :
                pendingLoads' = pendingLoads \cup
                    { Load(sourceCount + k, "upload", "read", images[k]) : k \in 1..n }
          /\ sourceCount' = sourceCount + n
    /\ UNCHANGED <<mosaicVars, photos, showCamera, clock, exporting, exportResult, cancelled>>

\* reader.onload: "img.src = e.target.result" starts the decode.
readerOnload ==
    /\ pc = "done"
    /\ \E load \in pendingLoads :
          /\ load.stage = "read"
          /\ pendingLoads' = (pendingLoads \ {load})
                                \cup {Load(load.src, load.kind, "decode", load.image)}
    /\ UNCHANGED <<mosaicVars, photos, showCamera, clock, sourceCount, exporting,
                   exportResult, cancelled>>

\* img.onload: setPhotos(prev => [...prev, photo]); the id is Date.now() for a
\* captured frame, which also closes the camera, and Date.now() + Math.random()
\* for an uploaded file.
imgOnload ==
    /\ pc = "done"
    /\ \E load \in pendingLoads :
          /\ load.stage = "decode"
          /\ load.image
          /\ pendingLoads' = pendingLoads \ {load}
          /\ IF load.kind = "capture"
             THEN /\ photos' = Append(photos, Photo(PhotoId(clock, 0), load.src))
                  /\ showCamera' = FALSE
             ELSE /\ \E fraction \in 0..(MaxFraction - 1) :
                        photos' = Append(photos, Photo(PhotoId(clock, fraction), load.src))
                  /\ UNCHANGED showCamera
    /\ RenderAgain(photos')
    /\ UNCHANGED <<clock, sourceCount, exporting, exportResult, cancelled>>

\* The data is not an image: the Image fires its error event, for which no
\* handler is set, and nothing else happens.
imgOnerror ==
    /\ pc = "done"
    /\ \E load \in pendingLoads :
          /\ load.stage = "decode"
          /\ ~load.image
          /\ pendingLoads' = pendingLoads \ {load}
    /\ UNCHANGED <<mosaicVars, photos, showCamera, clock, sourceCount, exporting,
                   exportResult, cancelled>>

\* prev.filter(photo => photo.id !== id)
WithoutId(collection, id) == SelectSeq(collection, LAMBDA photo : photo.id # id)

\* removePhoto(photo.id), called by the remove button of the photo at index k.
removePhotoAt(k) ==
    /\ pc = "done"
    /\ k \in 1..Len(photos)
    /\ photos' = WithoutId(photos, photos[k].id)
    /\ cancelled' = cancelled \cup { load.src : load \in pendingLoads }
    /\ RenderAgain(photos')
    /\ UNCHANGED <<showCamera, pendingLoads, clock, sourceCount, exporting, exportResult>>

removePhotoById == \E k \in 1..Len(photos) : removePhotoAt(k)

\* clearAllPhotos: setPhotos([]); the button exists while photos.length > 0.
clearAllSession ==
    /\ pc = "done"
    /\ Len(photos) > 0
    /\ photos' = << >>
    /\ cancelled' = cancelled \cup { load.src : load \in pendingLoads }
    /\ RenderAgain(photos')
    /\ UNCHANGED <<showCamera, pendingLoads, clock, sourceCount, exporting, exportResult>>

\* downloadCollage up to "await html2canvas(...)"; the button exists while
\* photos.length > 0 and mosaicRef is set.
downloadMosaic ==
    /\ pc = "done"
    /\ Len(photos) > 0
    /\ exporting < MaxExports
    /\ exporting' = exporting + 1
    /\ exportResult' = "none"
    /\ UNCHANGED <<mosaicVars, photos, showCamera, pendingLoads, clock, sourceCount, cancelled>>

\* html2canvas resolves: canvas.toBlob, saveAs.
html2canvasResolves ==
    /\ pc = "done"
    /\ exporting > 0
    /\ exporting' = exporting - 1
    /\ exportResult' = "saved"
    /\ UNCHANGED <<mosaicVars, photos, showCamera, pendingLoads, clock, sourceCount, cancelled>>

\* html2canvas rejects or toBlob throws: the catch block,
\* alert('Error generating collage. Please try again.').
html2canvasThrows ==
    /\ pc = "done"
    /\ exporting > 0
    /\ exporting' = exporting - 1
    /\ exportResult' = "alert"
    /\ UNCHANGED <<mosaicVars, photos, showCamera, pendingLoads, clock, sourceCount, cancelled>>

\* A millisecond passes.
Tick ==
    /\ clock < MaxClock
    /\ clock' = clock + 1
    /\ UNCHANGED <<mosaicVars, photos, showCamera, pendingLoads, sourceCount, exporting,
                   exportResult, cancelled>>

\* C14: in every reachable state of the photo collection the ids of its photos
\* are pairwise distinct.
C14_UniqueIds ==
    \A a, b \in 1..Len(photos) : a # b => photos[a].id # photos[b].id

\* The collection without the photo at index k.
RemoveAt(collection, k) ==
    SubSeq(collection, 1, k - 1) \o SubSeq(collection, k + 1, Len(collection))

\* Every id the session can produce.
SessionIds == { PhotoId(ms, fraction) : ms \in 0..MaxClock, fraction \in 0..(MaxFraction - 1) }

\* C15: removePhoto(id), called for the photo at index k, removes that photo and
\* nothing else, the other photos keeping their order; for an id that no photo
\* has, the filter leaves the collection as it is; and no step changes the
\* relative order of two photos that both remain in the collection.
C15_RemoveOnlyThat ==
    [][ /\ \A k \in 1..Len(photos) :
              removePhotoAt(k) => photos' = RemoveAt(photos, k)
        /\ \A id \in SessionIds \ { photos[k].id : k \in 1..Len(photos) } :
              WithoutId(photos, id) = photos
        /\ \A a, b \in 1..Len(photos) : \A c, d \in 1..Len(photos') :
              (a < b /\ photos'[c] = photos[a] /\ photos'[d] = photos[b]) => c < d
      ]_vars

\* C17: a file or frame whose decode was pending while the user removed a
\* photo or cleared the collection is never appended afterwards (its completion
\* is ignored), and the plan of every completed render still has one
\* assignment per photo.
C17_CancelledIgnored ==
    /\ \A k \in 1..Len(photos) : photos[k].src \notin cancelled
    /\ Rendered => Len(layouts) = Len(photos)

(***************************************************************************)
(*                 src/unnamed/part_000: fixed step table                  *)
(***************************************************************************)
Config(rows, cols, type) == [rows |-> rows, cols |-> cols, type |-> type]

\* The step table of getLayoutConfig, for photoCount <= 100.
StepTable(count) ==
    IF count <= 1 THEN Config(1, 1, "single")
    ELSE IF count <= 4 THEN Config(2, 2, "grid")
    ELSE IF count <= 6 THEN Config(2, 3, "grid")
    ELSE IF count <= 9 THEN Config(3, 3, "complex")
    ELSE IF count <= 12 THEN Config(3, 4, "complex")
    ELSE IF count <= 16 THEN Config(4, 4, "complex")
    ELSE IF count <= 20 THEN Config(4, 5, "ultra")
    ELSE IF count <= 25 THEN Config(5, 5, "ultra")
    ELSE IF count <= 30 THEN Config(5, 6, "mega")
    ELSE IF count <= 36 THEN Config(6, 6, "mega")
    ELSE IF count <= 42 THEN Config(6, 7, "extreme")
    ELSE IF count <= 49 THEN Config(7, 7, "extreme")
    ELSE IF count <= 56 THEN Config(7, 8, "insane")
    ELSE IF count <= 64 THEN Config(8, 8, "insane")
    ELSE IF count <= 81 THEN Config(9, 9, "infinite")
    ELSE Config(10, 10, "infinite")

\* Mutant of getLayoutConfig: Math.floor instead of Math.ceil above 100 photos.
getLayoutConfigFloor(count) ==
    IF count <= 100 THEN StepTable(count)
    ELSE LET size == CeilSqrt(count + 1) - 1
         IN  Config(size, size, "infinite")

\* Mutant of getLayoutConfig: the table lines for <= 49 and <= 56 are swapped.
getLayoutConfigSwapped(count) ==
    IF count > 42 /\ count <= 49 THEN Config(7, 8, "insane")
    ELSE IF count > 49 /\ count <= 56 THEN Config(7, 7, "extreme")
    ELSE IF count <= 100 THEN StepTable(count)
    ELSE LET size == CeilSqrt(count)
         IN  Config(size, size, "infinite")

\* getLayoutConfig(photoCount): the step table, then ceil(sqrt(photoCount)) squared.
getLayoutConfig(count) ==
    IF count <= 100 THEN StepTable(count)
    ELSE LET size == CeilSqrt(count)
         IN  Config(size, size, "infinite")

\* Mutant of getGridPosition: the index is divided by rows instead of cols.
getGridPositionByRows(index, config) ==
    IF config.type = "single"
    THEN [row |-> "1", col |-> "1"]
    ELSE [row |-> ToString((index \div config.rows) + 1),
          col |-> ToString((index % config.rows) + 1)]

\* getGridPosition(index, config, orientation); row and col are the template
\* strings `${row}` and `${col}`.  orientation is not read.
getGridPosition(index, config) ==
    IF config.type = "single"
    THEN [row |-> "1", col |-> "1"]
    ELSE [row |-> ToString((index \div config.cols) + 1),
          col |-> ToString((index % config.cols) + 1)]

InitFixed ==
    /\ fxPhotoCount = 0
    /\ fxPc = "render"
    /\ layoutConfig = [rows |-> 1, cols |-> 1, type |-> "single"]
    /\ gridPositions = << >>

\* One render: layoutConfig = getLayoutConfig(photos.length), then photos.map
\* asks getGridPosition for each index.
RenderGrid ==
    /\ fxPc = "render"
    /\ layoutConfig' = getLayoutConfig(fxPhotoCount)
    /\ gridPositions' = [k \in 1..fxPhotoCount |-> getGridPosition(k - 1, layoutConfig')]
    /\ fxPc' = "shown"
    /\ UNCHANGED fxPhotoCount

\* img.onload: setPhotos(prev => [...prev, photo])
AppendPhotoFixed ==
    /\ fxPc = "shown"
    /\ fxPhotoCount < MaxFixedCount
    /\ fxPhotoCount' = fxPhotoCount + 1
    /\ fxPc' = "render"
    /\ UNCHANGED <<layoutConfig, gridPositions>>

\* removePhoto(photo.id) from a rendered photo's button
removePhotoFixed ==
    /\ fxPc = "shown"
    /\ fxPhotoCount > 0
    /\ fxPhotoCount' = fxPhotoCount - 1
    /\ fxPc' = "render"
    /\ UNCHANGED <<layoutConfig, gridPositions>>

\* clearAllPhotos; its button is rendered only when photos.length > 0
clearAllPhotosFixed ==
    /\ fxPc = "shown"
    /\ fxPhotoCount > 0
    /\ fxPhotoCount' = 0
    /\ fxPc' = "render"
    /\ UNCHANGED <<layoutConfig, gridPositions>>

\* C1: for every photo count >= 0, getLayoutConfig returns rows >= 1, cols >= 1
\* and rows * cols >= count.
C1_FixedCapacity ==
    fxPc = "shown" =>
        /\ layoutConfig.rows >= 1
        /\ layoutConfig.cols >= 1
        /\ layoutConfig.rows * layoutConfig.cols >= fxPhotoCount

\* C1 witness: a count above the step table, sized by ceil(sqrt(count)).
C1_Witness ==
    /\ fxPc = "shown"
    /\ fxPhotoCount > 100
    /\ layoutConfig.rows = layoutConfig.cols
    /\ layoutConfig.rows * layoutConfig.cols >= fxPhotoCount
    /\ (layoutConfig.rows - 1) * (layoutConfig.rows - 1) < fxPhotoCount

\* C7: for count >= 1, photo i is put at row floor(i / cols) + 1 and column
\* (i mod cols) + 1 of the shape getLayoutConfig(count) gives; these cells are
\* pairwise distinct and lie in 1..rows x 1..cols; count = 4 gives the shape 2x2
\* and the cells (1,1), (1,2), (2,1), (2,2) in input order.
C7_RowMajor ==
    (fxPc = "shown" /\ fxPhotoCount >= 1) =>
        /\ Len(gridPositions) = fxPhotoCount
        /\ \A idx \in 0..(fxPhotoCount - 1) :
              LET row == (idx \div layoutConfig.cols) + 1
                  col == (idx % layoutConfig.cols) + 1
              IN  /\ gridPositions[idx + 1] = [row |-> ToString(row), col |-> ToString(col)]
                  /\ row \in 1..layoutConfig.rows
                  /\ col \in 1..layoutConfig.cols
        /\ \A a, b \in 1..fxPhotoCount : a # b => gridPositions[a] # gridPositions[b]
        /\ fxPhotoCount = 4 =>
              /\ layoutConfig.rows = 2 /\ layoutConfig.cols = 2
              /\ gridPositions = << [row |-> "1", col |-> "1"], [row |-> "1", col |-> "2"],
                                    [row |-> "2", col |-> "1"], [row |-> "2", col |-> "2"] >>

\* C7 witness: four photos shown, the last one in the second row.
C7_Witness ==
    /\ fxPc = "shown"
    /\ fxPhotoCount = 4
    /\ Len(gridPositions) = 4
    /\ gridPositions[4] = [row |-> "2", col |-> "2"]

Capacity(config) == config.rows * config.cols

\* C11: the capacity rows * cols that getLayoutConfig returns never decreases
\* when the photo count grows (and never grows when it shrinks), across the
\* end of the step table at 100 as well.  A render replaces the shape of the
\* count rendered before, Len(gridPositions), by the shape of the new count.
C11_CapacityMonotone ==
    [][ (fxPc = "render" /\ fxPc' = "shown") =>
            /\ Len(gridPositions) <= fxPhotoCount' =>
                   Capacity(layoutConfig) <= Capacity(layoutConfig')
            /\ Len(gridPositions) >= fxPhotoCount' =>
                   Capacity(layoutConfig) >= Capacity(layoutConfig') ]_vars

\* C11 witness: the render of 101 photos, the first count past the step table,
\* has replaced the 10x10 shape of 100 photos by a larger one.
C11_Witness ==
    /\ fxPc = "shown"
    /\ fxPhotoCount = 101
    /\ Len(gridPositions) = 101
    /\ Capacity(layoutConfig) > 100

(***************************************************************************)
(*                 src/src/App.jsx: uniform square grid                    *)
(***************************************************************************)
\* getGridSize() for photos.length = count
getGridSize(count) ==
    IF count = 1 THEN 1
    ELSE IF count <= 4 THEN 2
    ELSE IF count <= 9 THEN 3
    ELSE IF count <= 16 THEN 4
    ELSE IF count <= 25 THEN 5
    ELSE 6

\* The indices photos.forEach clones into the container, in order:
\* "if (index < gridSize * gridSize)".
ClonedIndices(count, g) ==
    LET kept == Min(count, g * g)
    IN  [k \in 1..kept |-> k - 1]

NoCollage == [photoCount |-> 0, shown |-> << >>]

InitUniform ==
    /\ uPhotoCount = 0
    /\ dlPc = "idle"
    /\ dlPhotos = 0
    /\ downloadContainer = << >>
    /\ savedCollage = NoCollage
    /\ alertShown = FALSE

\* addPhoto(src): setPhotos(prev => [...prev, newPhoto])
addPhoto ==
    /\ uPhotoCount < MaxUniformCount
    /\ uPhotoCount' = uPhotoCount + 1
    /\ UNCHANGED <<dlPc, dlPhotos, downloadContainer, savedCollage, alertShown>>

\* removePhoto(photo.id) from a photo slot's button
removePhotoUniform ==
    /\ uPhotoCount > 0
    /\ uPhotoCount' = uPhotoCount - 1
    /\ UNCHANGED <<dlPc, dlPhotos, downloadContainer, savedCollage, alertShown>>

\* The Clear button: setPhotos([]), disabled when photos.length === 0
clearPhotos ==
    /\ uPhotoCount > 0
    /\ uPhotoCount' = 0
    /\ UNCHANGED <<dlPc, dlPhotos, downloadContainer, savedCollage, alertShown>>

\* downloadCollage up to its first await: the container is built from the
\* photos of this render and attached to the document.  One export at a time
\* is followed.
downloadCollage ==
    /\ dlPc = "idle"
    /\ uPhotoCount # 0
    /\ dlPhotos' = uPhotoCount
    /\ downloadContainer' = ClonedIndices(uPhotoCount, getGridSize(uPhotoCount))
    /\ dlPc' = "awaiting"
    /\ UNCHANGED <<uPhotoCount, savedCollage, alertShown>>

\* html2canvas resolves: the image of the container is downloaded; finally the
\* container is removed.
rasterizeResolves ==
    /\ dlPc = "awaiting"
    /\ savedCollage' = [photoCount |-> dlPhotos, shown |-> downloadContainer]
    /\ downloadContainer' = << >>
    /\ dlPhotos' = 0
    /\ dlPc' = "idle"
    /\ UNCHANGED <<uPhotoCount, alertShown>>

\* Mutant of rasterizeThrows: the catch block shows no alert.
rasterizeThrowsSilently ==
    /\ dlPc = "awaiting"
    /\ alertShown' = alertShown
    /\ downloadContainer' = << >>
    /\ dlPhotos' = 0
    /\ dlPc' = "idle"
    /\ UNCHANGED <<uPhotoCount, savedCollage>>

\* html2canvas throws: 'Download failed. Please try again.'; finally the
\* container is removed.
rasterizeThrows ==
    /\ dlPc = "awaiting"
    /\ alertShown' = TRUE
    /\ downloadContainer' = << >>
    /\ dlPhotos' = 0
    /\ dlPc' = "idle"
    /\ UNCHANGED <<uPhotoCount, savedCollage>>

\* C10: with 37 photos (any count above 36) no photo is silently dropped: every
\* photo of the collection at the time of the export is in the exported collage.
C10_NoSilentDrop ==
    /\ dlPc = "awaiting" => Len(downloadContainer) = dlPhotos
    /\ \A idx \in 0..(savedCollage.photoCount - 1) :
          \E k \in 1..Len(savedCollage.shown) : savedCollage.shown[k] = idx

(***************************************************************************)
(*            src/src/App.jsx: the photo collection of a session           *)
(***************************************************************************)
\* e.target.result of the FileReader: the data URL of file number source, whose
\* bytes decode as an image or do not.
DataUrl(source, image) == [source |-> source, image |-> image]

\* A chosen or dropped file: what file.type says and what the bytes are.
File(typeIsImage, image) == [typeIsImage |-> typeIsImage, image |-> image]

InitApp ==
    /\ uPhotos = << >>
    /\ uReaders = {}
    /\ uClock = 0
    /\ uSourceCount = 0

\* The export of downloadCollage is left as it is.
ExportUnchanged == UNCHANGED <<dlPc, dlPhotos, downloadContainer, savedCollage, alertShown>>

\* files.forEach of handleFileUpload and handleDrop: a FileReader is started for
\* every file whose type starts with 'image/'.
StartReaders(files) ==
    /\ uSourceCount + Len(files) <= MaxSources
    /\ uReaders' = uReaders \cup
           { DataUrl(uSourceCount + k, files[k].image) :
                 k \in { j \in 1..Len(files) : files[j].typeIsImage } }
    /\ uSourceCount' = uSourceCount + Len(files)
    /\ UNCHANGED <<uPhotos, uClock, uPhotoCount>>
    /\ ExportUnchanged

Batches ==
    UNION { [1..n -> { File(t, b) : t, b \in BOOLEAN }] : n \in 1..MaxBatch }

\* handleFileUpload(event), the onChange of the file input.
handleFileUploadApp == \E files \in Batches : StartReaders(files)

\* handleDrop(event), the onDrop of the collage area.
handleDrop == \E files \in Batches : StartReaders(files)

\* reader.onload = (e) => addPhoto(e.target.result):
\* setPhotos(prev => [...prev, {id: Date.now() + Math.random(), src}])
readerOnloadApp ==
    /\ \E result \in uReaders :
          /\ uReaders' = uReaders \ {result}
          /\ \E fraction \in 0..(MaxFraction - 1) :
                uPhotos' = Append(uPhotos, Photo(PhotoId(uClock, fraction), result))
    /\ uPhotoCount' = Len(uPhotos')
    /\ UNCHANGED <<uClock, uSourceCount>>
    /\ ExportUnchanged

\* removePhoto(photo.id), called by the remove button of the photo at index k.
removePhotoApp ==
    /\ \E k \in 1..Len(uPhotos) :
          uPhotos' = WithoutId(uPhotos, uPhotos[k].id)
    /\ uPhotoCount' = Len(uPhotos')
    /\ UNCHANGED <<uReaders, uClock, uSourceCount>>
    /\ ExportUnchanged

\* The Clear button: setPhotos([]), disabled when photos.length === 0.
clearPhotosApp ==
    /\ Len(uPhotos) > 0
    /\ uPhotos' = << >>
    /\ uPhotoCount' = 0
    /\ UNCHANGED <<uReaders, uClock, uSourceCount>>
    /\ ExportUnchanged

\* A millisecond passes.
TickApp ==
    /\ uClock < MaxClock
    /\ uClock' = uClock + 1
    /\ UNCHANGED <<uPhotos, uReaders, uSourceCount, uPhotoCount>>
    /\ ExportUnchanged

\* C16: of the files of an upload, read in any order and with removals in
\* between, every one that decodes as an image is appended exactly once, and
\* one that does not decode is skipped: the collection never holds a photo
\* whose src does not decode, nor two photos of one file.
C16_BatchUpload ==
    /\ \A k \in 1..Len(uPhotos) : uPhotos[k].src.image
    /\ \A a, b \in 1..Len(uPhotos) : a # b => uPhotos[a].src # uPhotos[b].src
    /\ \A result \in uReaders : \A k \in 1..Len(uPhotos) : uPhotos[k].src # result

\* C18: when rasterization throws during downloadCollage the failure is
\* reported (the alert is shown), no image is saved, the photo collection is
\* what it was, and a new export can be started; no step of an export, failed
\* or successful, changes the photo collection.
C18_ExportFailure ==
    [][ /\ rasterizeThrows =>
              /\ alertShown'
              /\ savedCollage' = savedCollage
              /\ uPhotos' = uPhotos
              /\ dlPc' = "idle"
        /\ dlPc' # dlPc => uPhotos' = uPhotos
        /\ (alertShown /\ dlPc = "idle" /\ Len(uPhotos) > 0) => ENABLED downloadCollage
      ]_vars

\* C18 witness: an export has failed (alert shown, nothing ever saved), the
\* photos are still there and no export is running.
C18_Witness ==
    /\ alertShown
    /\ savedCollage = NoCollage
    /\ dlPc = "idle"
    /\ Len(uPhotos) = 2
    /\ uPhotoCount = 2

(***************************************************************************)
(*                       src/src/App.jsx: the camera                       *)
(***************************************************************************)
\* How a call of startCamera ended: what getUserMedia answered and whether
\* alert('Camera access denied or not available') was shown.
Outcome(access, alert) == [access |-> access, alert |-> alert]

InitCamera ==
    /\ uShowCamera = FALSE
    /\ cameraCalls = 0
    /\ gumPending = 0
    /\ streamCount = 0
    /\ liveStreams = {}
    /\ videoSrcObject = 0
    /\ cameraOutcome = Outcome("none", FALSE)

\* <video ref={videoRef}> is inside "{showCamera && (...)}": videoRef.current is
\* the element while the modal is rendered and null otherwise.
videoMounted == uShowCamera

\* startCamera up to "await navigator.mediaDevices.getUserMedia(...)".
startCamera ==
    /\ cameraCalls < MaxCameraCalls
    /\ cameraCalls' = cameraCalls + 1
    /\ gumPending' = gumPending + 1
    /\ UNCHANGED <<uShowCamera, streamCount, liveStreams, videoSrcObject, cameraOutcome>>

\* getUserMedia resolves with a stream: "videoRef.current.srcObject = stream"
\* throws a TypeError when videoRef.current is null, and the catch block shows
\* the alert; otherwise setShowCamera(true).
getUserMediaResolves ==
    /\ gumPending > 0
    /\ gumPending' = gumPending - 1
    /\ streamCount' = streamCount + 1
    /\ liveStreams' = liveStreams \cup {streamCount + 1}
    /\ IF videoMounted
       THEN /\ videoSrcObject' = streamCount + 1
            /\ uShowCamera' = TRUE
            /\ cameraOutcome' = Outcome("granted", FALSE)
       ELSE /\ cameraOutcome' = Outcome("granted", TRUE)
            /\ UNCHANGED <<videoSrcObject, uShowCamera>>
    /\ UNCHANGED cameraCalls

\* getUserMedia rejects (access denied, no device): the catch block.
getUserMediaRejects ==
    /\ gumPending > 0
    /\ gumPending' = gumPending - 1
    /\ cameraOutcome' = Outcome("denied", TRUE)
    /\ UNCHANGED <<uShowCamera, cameraCalls, streamCount, liveStreams, videoSrcObject>>

\* stopCamera, the Close button of the modal: the tracks of
\* videoRef.current?.srcObject are stopped, setShowCamera(false) unmounts the
\* video element.
stopCamera ==
    /\ uShowCamera
    /\ liveStreams' = liveStreams \ {videoSrcObject}
    /\ videoSrcObject' = 0
    /\ uShowCamera' = FALSE
    /\ UNCHANGED <<cameraCalls, gumPending, streamCount, cameraOutcome>>

\* capturePhoto, the Capture button of the modal: addPhoto(photoData), then
\* stopCamera().
capturePhotoApp ==
    /\ uShowCamera
    /\ uSourceCount < MaxSources
    /\ uSourceCount' = uSourceCount + 1
    /\ \E fraction \in 0..(MaxFraction - 1) :
          uPhotos' = Append(uPhotos, Photo(PhotoId(uClock, fraction),
                                           DataUrl(uSourceCount + 1, TRUE)))
    /\ uPhotoCount' = Len(uPhotos')
    /\ stopCamera
    /\ UNCHANGED <<uReaders, uClock>>
    /\ ExportUnchanged

\* C20: whenever getUserMedia resolves with a stream, startCamera attaches it
\* to the video element and opens the camera modal, so that Capture can follow;
\* the alert 'Camera access denied or not available' is shown only when access
\* was denied or no device exists.
C20_CameraOpens ==
    /\ cameraOutcome.access = "granted" =>
          /\ uShowCamera
          /\ videoSrcObject \in liveStreams
          /\ ENABLED capturePhotoApp
    /\ cameraOutcome.alert => cameraOutcome.access = "denied"

\* C21: whenever the camera modal is closed (showCamera is false), no stream
\* acquired by startCamera still has running tracks: each one was stopped by
\* stopCamera or on the error path.
C21_NoLiveStreamWhenClosed ==
    ~uShowCamera => liveStreams = {}

(***************************************************************************)
(*                             Specifications                              *)
(***************************************************************************)
Init ==
    /\ InitMosaic /\ InitFixed /\ InitUniform /\ remembered = {}
    /\ InitSession /\ InitApp /\ InitCamera

Next ==
    \/ ReturnFixedLayout /\ UNCHANGED exceptMosaic
    \/ EnterLoop /\ UNCHANGED exceptMosaic
    \/ FindNextAvailable /\ UNCHANGED exceptMosaic
    \/ PlacePhoto /\ UNCHANGED exceptMosaic
    \/ ReturnLayouts /\ UNCHANGED exceptMosaic
    \/ AppendPhoto /\ UNCHANGED exceptMosaic
    \/ removePhoto /\ UNCHANGED exceptMosaic
    \/ clearAllPhotos /\ UNCHANGED exceptMosaic
    \/ updateScreenSize /\ UNCHANGED exceptMosaic

Spec == Init /\ [][Next]_vars

\* The mosaic variant with the observer of C12.
NextReplay ==
    \/ Next
    \/ Remember

SpecReplay == Init /\ [][NextReplay]_vars

\* The session of part_001: the collection with its ids, the loads and exports
\* in flight, and the renders that follow every change.
NextSession ==
    \/ Generate /\ UNCHANGED sessionVars /\ UNCHANGED exceptSession
    \/ updateScreenSize /\ UNCHANGED sessionVars /\ UNCHANGED exceptSession
    \/ openCamera /\ UNCHANGED exceptSession
    \/ cancelCamera /\ UNCHANGED exceptSession
    \/ capturePhoto /\ UNCHANGED exceptSession
    \/ handleFileUpload /\ UNCHANGED exceptSession
    \/ readerOnload /\ UNCHANGED exceptSession
    \/ imgOnload /\ UNCHANGED exceptSession
    \/ imgOnerror /\ UNCHANGED exceptSession
    \/ removePhotoById /\ UNCHANGED exceptSession
    \/ clearAllSession /\ UNCHANGED exceptSession
    \/ downloadMosaic /\ UNCHANGED exceptSession
    \/ html2canvasResolves /\ UNCHANGED exceptSession
    \/ html2canvasThrows /\ UNCHANGED exceptSession
    \/ Tick /\ UNCHANGED exceptSession

SpecSession == Init /\ [][NextSession]_vars

\* The session of App.jsx: uploads, removals and exports.
NextApp ==
    \/ handleFileUploadApp /\ UNCHANGED exceptApp
    \/ handleDrop /\ UNCHANGED exceptApp
    \/ readerOnloadApp /\ UNCHANGED exceptApp
    \/ removePhotoApp /\ UNCHANGED exceptApp
    \/ clearPhotosApp /\ UNCHANGED exceptApp
    \/ TickApp /\ UNCHANGED exceptApp
    \/ downloadCollage /\ UNCHANGED appVars /\ UNCHANGED exceptApp
    \/ rasterizeResolves /\ UNCHANGED appVars /\ UNCHANGED exceptApp
    \/ rasterizeThrows /\ UNCHANGED appVars /\ UNCHANGED exceptApp

SpecApp == Init /\ [][NextApp]_vars

\* The camera of App.jsx beside its photo collection.  The Capture and Close
\* buttons (capturePhotoApp, stopCamera) exist only inside the modal.
NextCamera ==
    \/ startCamera /\ UNCHANGED <<uniformVars, appVars>> /\ UNCHANGED exceptCamera
    \/ getUserMediaResolves /\ UNCHANGED <<uniformVars, appVars>> /\ UNCHANGED exceptCamera
    \/ getUserMediaRejects /\ UNCHANGED <<uniformVars, appVars>> /\ UNCHANGED exceptCamera
    \/ handleFileUploadApp /\ UNCHANGED cameraVars /\ UNCHANGED exceptCamera
    \/ handleDrop /\ UNCHANGED cameraVars /\ UNCHANGED exceptCamera
    \/ readerOnloadApp /\ UNCHANGED cameraVars /\ UNCHANGED exceptCamera
    \/ removePhotoApp /\ UNCHANGED cameraVars /\ UNCHANGED exceptCamera
    \/ clearPhotosApp /\ UNCHANGED cameraVars /\ UNCHANGED exceptCamera

SpecCamera == Init /\ [][NextCamera]_vars

NextFixed ==
    \/ RenderGrid /\ UNCHANGED exceptFixed
    \/ AppendPhotoFixed /\ UNCHANGED exceptFixed
    \/ removePhotoFixed /\ UNCHANGED exceptFixed
    \/ clearAllPhotosFixed /\ UNCHANGED exceptFixed

SpecFixed == Init /\ [][NextFixed]_vars

NextUniform ==
    \/ addPhoto /\ UNCHANGED exceptUniform
    \/ removePhotoUniform /\ UNCHANGED exceptUniform
    \/ clearPhotos /\ UNCHANGED exceptUniform
    \/ downloadCollage /\ UNCHANGED exceptUniform
    \/ rasterizeResolves /\ UNCHANGED exceptUniform
    \/ rasterizeThrows /\ UNCHANGED exceptUniform

SpecUniform == Init /\ [][NextUniform]_vars

\* generateMosaicLayout runs synchronously inside the render: once started, its
\* steps are taken until it returns.
GenerateStep == Generate /\ UNCHANGED exceptMosaic

FairSpec == Spec /\ WF_vars(GenerateStep)

=============================================================================
